---- MODULE Spec2Model ----
(***************************************************************************)
(* Model of the video2pdf GUI (src/video_to_pdf_gui.py): the Tk main       *)
(* thread (start requests, configuration toggles and edits, the log poll)  *)
(* and the background worker thread running the acquisition pipeline       *)
(* (download, time parsing, range validation, ffmpeg trim, resolution      *)
(* probe, manual region selection, option parsing, extractor).             *)
(*                                                                         *)
(* The entry fields are operator input: a handler or worker step that reads  *)
(* one takes its text as a parameter, since the operator may have typed     *)
(* anything before the read.  The two checkbuttons are state: their         *)
(* callbacks link them.                                                     *)
(*                                                                         *)
(* Texts are sequences of one-character strings.  Seconds are exact        *)
(* decimals held as integers in thousandths (the precision of the ".3f"    *)
(* the trimmer formats them with).  An optional value is <<>> (None) or    *)
(* the one-element sequence <<v>>.                                         *)
(***************************************************************************)
EXTENDS Integers, Sequences, FiniteSets, TLC

\* ------------------------------------------------------------------ bounds

\* Threads the start handler may create in one behaviour.
MaxRuns == 2
\* Progress callbacks the download engine makes in one download.
MaxProgress == 1
\* Writes the extractor makes to the redirected stdout/stderr in one call.
MaxWrites == 1
\* Chunks waiting on the log queue.
MaxQueue == 2
\* Characters of a quality text handed to download_video.
MaxQualityLen == 3
\* Colon-separated parts of a time text given to the parser by itself.
MaxTimeParts == 4

\* ------------------------------------------------------------------ texts

None == <<>>
Some(v) == <<v>>

Digits == {"0", "1", "2", "3", "4", "5", "6", "7", "8", "9"}

DigitVal(c) ==
    CASE c = "0" -> 0 [] c = "1" -> 1 [] c = "2" -> 2 [] c = "3" -> 3
      [] c = "4" -> 4 [] c = "5" -> 5 [] c = "6" -> 6 [] c = "7" -> 7
      [] c = "8" -> 8 [] c = "9" -> 9

IsSpace(c) == c = " "

RECURSIVE LStrip(_)
LStrip(s) == IF s # <<>> /\ IsSpace(Head(s)) THEN LStrip(Tail(s)) ELSE s

RECURSIVE RStrip(_)
RStrip(s) ==
    IF s # <<>> /\ IsSpace(s[Len(s)]) THEN RStrip(SubSeq(s, 1, Len(s) - 1)) ELSE s

\* str.strip()
Strip(s) == RStrip(LStrip(s))

LowerChar(c) ==
    CASE c = "H" -> "h" [] c = "T" -> "t" [] c = "P" -> "p" [] c = "S" -> "s"
      [] OTHER -> c

\* str.lower()
Lower(s) == [i \in 1..Len(s) |-> LowerChar(s[i])]

\* str.startswith(prefix)
StartsWith(s, prefix) ==
    Len(s) >= Len(prefix) /\ SubSeq(s, 1, Len(prefix)) = prefix

\* str.split(sep) for a one-character separator: always at least one part.
RECURSIVE Split(_, _)
Split(s, sep) ==
    IF \A i \in 1..Len(s) : s[i] # sep
    THEN <<s>>
    ELSE LET k == CHOOSE i \in 1..Len(s) :
                      s[i] = sep /\ \A j \in 1..(i - 1) : s[j] # sep
         IN  <<SubSeq(s, 1, k - 1)>> \o Split(SubSeq(s, k + 1, Len(s)), sep)

\* Value of a non-empty digit string.
RECURSIVE DigitsVal(_)
DigitsVal(s) ==
    IF s = <<>> THEN 0 ELSE 10 * DigitsVal(SubSeq(s, 1, Len(s) - 1)) + DigitVal(s[Len(s)])

AllDigits(s) == \A i \in 1..Len(s) : s[i] \in Digits

\* Sign prefix accepted by int() and float().
Unsigned(s) == IF s # <<>> /\ Head(s) \in {"+", "-"} THEN Tail(s) ELSE s
SignOf(s) == IF s # <<>> /\ Head(s) = "-" THEN -1 ELSE 1

\* int(text): surrounding whitespace and one sign are accepted, then digits only.
\* [ok |-> FALSE] stands for ValueError.
ParseInt(text) ==
    LET s == Strip(text)
        u == Unsigned(s)
    IN  IF u # <<>> /\ AllDigits(u)
        THEN [ok |-> TRUE, val |-> SignOf(s) * DigitsVal(u)]
        ELSE [ok |-> FALSE, val |-> 0]

\* Thousandths held by a string of fraction digits (digits past the third are
\* below the model's precision).
FracMillis(f) ==
    LET d(i) == IF i <= Len(f) THEN DigitVal(f[i]) ELSE 0
    IN  100 * d(1) + 10 * d(2) + d(3)

\* A float is its value in thousandths, or one of three values no finite text
\* of the model reaches: the infinities and the NaN.
PosInf == 1000000000
NegInf == -PosInf
NaN == PosInf + 1

\* Float addition, negation and comparison: a NaN makes a sum NaN and a
\* comparison false.
FNeg(a) == IF a = NaN THEN NaN ELSE -a

FAdd(a, b) ==
    IF a = NaN \/ b = NaN THEN NaN
    ELSE IF a \in {PosInf, NegInf} THEN (IF b = -a THEN NaN ELSE a)
    ELSE IF b \in {PosInf, NegInf} THEN b
    ELSE a + b

FLe(a, b) == a # NaN /\ b # NaN /\ a <= b

FGt(a, b) == a # NaN /\ b # NaN /\ a > b

\* float(text): surrounding whitespace and one sign, then "nan", "inf" or
\* "infinity" (in lower case here), or digits with at most one point and at
\* least one digit.  Exponents and underscores are in no text of the model.
ParseFloat(text) ==
    LET s == Strip(text)
        u == Unsigned(s)
        p == Split(u, ".")
    IN  IF u = <<"n", "a", "n">> THEN [ok |-> TRUE, val |-> NaN]
        ELSE IF u \in {<<"i", "n", "f">>, <<"i", "n", "f", "i", "n", "i", "t", "y">>}
        THEN [ok |-> TRUE, val |-> SignOf(s) * PosInf]
        ELSE IF Len(p) = 1 /\ p[1] # <<>> /\ AllDigits(p[1])
        THEN [ok |-> TRUE, val |-> SignOf(s) * 1000 * DigitsVal(p[1])]
        ELSE IF /\ Len(p) = 2
                /\ AllDigits(p[1]) /\ AllDigits(p[2])
                /\ (p[1] # <<>> \/ p[2] # <<>>)
        THEN [ok |-> TRUE,
              val |-> SignOf(s) * (1000 * DigitsVal(p[1]) + FracMillis(p[2]))]
        ELSE [ok |-> FALSE, val |-> 0]

\* App._parse_time_to_seconds: [err |-> TRUE] is the ValueError carrying the
\* grammar hint; otherwise val is None or Some(thousandths of a second).
parse_time_to_seconds(text) ==
    LET s == Strip(text)
        parts == Split(s, ":")
        Fail == [err |-> TRUE, val |-> None]
        Ok(v) == [err |-> FALSE, val |-> Some(v)]
    IN  IF s = <<>> THEN [err |-> FALSE, val |-> None]
        ELSE IF Len(parts) = 1 THEN
            LET sec == ParseFloat(parts[1])
            IN  IF sec.ok THEN Ok(sec.val) ELSE Fail
        ELSE IF Len(parts) = 2 THEN
            LET m == ParseInt(parts[1])
                sec == ParseFloat(parts[2])
            IN  IF m.ok /\ sec.ok THEN Ok(FAdd(m.val * 60000, sec.val)) ELSE Fail
        ELSE IF Len(parts) = 3 THEN
            LET h == ParseInt(parts[1])
                m == ParseInt(parts[2])
                sec == ParseFloat(parts[3])
            IN  IF h.ok /\ m.ok /\ sec.ok
                THEN Ok(FAdd(h.val * 3600000 + m.val * 60000, sec.val))
                ELSE Fail
        ELSE Fail

\* ------------------------------------------------------------------ paths

\* A pathlib path: whether it is rooted, and its components.  A component is a
\* text; a run of characters no operator inspects is written as one string.
Components(parts) ==
    SelectSeq(parts, LAMBDA c : c # <<>> /\ c # <<".">>)

\* Path(text)
Path(text) ==
    [root |-> text # <<>> /\ Head(text) = "/",
     parts |-> Components(Split(text, "/"))]

\* Path.parent
Parent(p) ==
    IF p.parts = <<>> THEN p
    ELSE [p EXCEPT !.parts = SubSeq(p.parts, 1, Len(p.parts) - 1)]

\* Path.name
Name(p) == IF p.parts = <<>> THEN <<>> ELSE p.parts[Len(p.parts)]

\* Index of the last "." of a name, 0 when there is none (str.rfind, 1-based).
RFindDot(name) ==
    IF \A i \in 1..Len(name) : name[i] # "." THEN 0
    ELSE CHOOSE i \in 1..Len(name) :
             name[i] = "." /\ \A j \in (i + 1)..Len(name) : name[j] # "."

\* Path.stem: the name without its last suffix; a leading or trailing dot is
\* no suffix separator.
Stem(p) ==
    LET name == Name(p)
        k == RFindDot(name)
    IN  IF 1 < k /\ k < Len(name) THEN SubSeq(name, 1, k - 1) ELSE name

\* p / name
Join(p, name) == [p EXCEPT !.parts = p.parts \o <<name>>]

\* tempfile.gettempdir()
TmpDir == Path(<<"/", "tmp">>)

\* Variant: the clip is written over the file it is cut from.
ClipPathInPlace(input_p, parent_exists) == input_p

\* clip_dir / (input_p.stem + ".clip.mp4"), lines 358-360; parent_exists is the
\* answer of input_p.parent.exists().
ClipPath(input_p, parent_exists) ==
    LET clip_dir == Join(IF parent_exists THEN Parent(input_p) ELSE TmpDir,
                         <<"video2pdf_segments">>)
    IN  Join(clip_dir, Stem(input_p) \o <<".", "clip", ".", "mp4">>)

\* input_path.lower().startswith(("http://", "https://")), line 309
is_url(input_path) ==
    \/ StartsWith(Lower(input_path), <<"h", "t", "t", "p", ":", "/", "/">>)
    \/ StartsWith(Lower(input_path), <<"h", "t", "t", "p", "s", ":", "/", "/">>)

\* ------------------------------------------------------------------ region spec

\* video_to_pdf_phash.parse_crop: None for no spec, the rectangle of four
\* comma-separated non-negative integers, [err |-> TRUE] for any other text.
parse_crop(spec) ==
    LET parts == Split(spec, ",")
        n(i) == ParseInt(parts[i])
    IN  IF spec = <<>> THEN [err |-> FALSE, val |-> None]
        ELSE IF /\ Len(parts) = 4
                /\ \A i \in 1..4 : n(i).ok /\ n(i).val >= 0
        THEN [err |-> FALSE, val |-> Some(<<n(1).val, n(2).val, n(3).val, n(4).val>>)]
        ELSE [err |-> TRUE, val |-> None]

\* ------------------------------------------------------------------ downloader

DigitChar(n) ==
    CASE n = 0 -> "0" [] n = 1 -> "1" [] n = 2 -> "2" [] n = 3 -> "3" [] n = 4 -> "4"
      [] n = 5 -> "5" [] n = 6 -> "6" [] n = 7 -> "7" [] n = 8 -> "8" [] n = 9 -> "9"

\* The decimal text of a natural number, as an f-string formats an int.
RECURSIVE NatText(_)
NatText(n) ==
    IF n < 10 THEN <<DigitChar(n)>> ELSE NatText(n \div 10) \o <<DigitChar(n % 10)>>

\* str.isdigit(): a non-empty text of digit characters.  A superscript digit is
\* a digit to isdigit() that int() rejects.
IsDigitText(s) == s # <<>> /\ \A i \in 1..Len(s) : s[i] \in Digits \cup {"²"}

\* download_video, lines 26-31: the height a quality text asks for, if any.
MaxHeight(quality) ==
    LET prefix == SubSeq(quality, 1, Len(quality) - 1)
    IN  IF quality # <<>> /\ quality[Len(quality)] = "p" /\ IsDigitText(prefix)
        THEN IF ParseInt(prefix).ok THEN Some(ParseInt(prefix).val) ELSE None
        ELSE None

\* Variant: the combined branch is left unbounded.
FormatSelectorVideoOnly(max_height) ==
    IF max_height # None /\ max_height[1] # 0
    THEN <<"bv*[height<=?">> \o NatText(max_height[1]) \o <<"]+ba/b">>
    ELSE <<"bv*+ba/b">>

\* download_video, lines 32-35: the format query; "bv*[height<=?", "]+ba/b" and
\* the like are runs of characters written as one string.
FormatSelector(max_height) ==
    IF max_height # None /\ max_height[1] # 0
    THEN <<"bv*[height<=?">> \o NatText(max_height[1]) \o <<"]+ba/b[height<=?">>
             \o NatText(max_height[1]) \o <<"]">>
    ELSE <<"bv*+ba/b">>

\* ------------------------------------------------------------------ inputs

\* Quality texts: every text of up to MaxQualityLen of these characters, and
\* the default.
QualityChars == {"0", "1", "7", "p", "b", "²"}

QualityTexts ==
    UNION {[1..n -> QualityChars] : n \in 0..MaxQualityLen} \cup {<<"b", "e", "s", "t">>}

\* Parts of a time text: empty, blank, an integer, a decimal, a word, a signed
\* integer, a padded integer and the two words float() reads as numbers.
TimeParts ==
    { <<>>,
      <<" ">>,
      <<"5">>,
      <<"1", ".", "5">>,
      <<"x">>,
      <<"-", "2">>,
      <<" ", "3", " ">>,
      <<"n", "a", "n">>,
      <<"i", "n", "f">> }

RECURSIVE JoinColon(_)
JoinColon(parts) ==
    IF Len(parts) = 1 THEN parts[1]
    ELSE parts[1] \o <<":">> \o JoinColon(Tail(parts))

\* Time texts: up to MaxTimeParts parts joined by colons.
TimeTexts ==
    {JoinColon(parts) : parts \in UNION {[1..n -> TimeParts] : n \in 1..MaxTimeParts}}

\* The time texts of a trim called by itself, and the bounds they parse to.
TrimTexts ==
    { <<>>,
      <<"3", "0">>,
      <<"1", ":", "3", "0">>,
      <<"1", ".", "5">>,
      <<"-", "2">>,
      <<"n", "a", "n">>,
      <<"i", "n", "f">> }

\* Texts the operator types into the input field.
InputTexts ==
    { <<>>,
      <<" ">>,
      <<"/">>,
      <<"d", "/", "v", ".", "mp4">>,
      <<"H", "t", "t", "p", ":", "/", "/", "v">> }

\* Texts the operator types into the start and end time fields.
StartTexts == { <<>>, <<"9", "0">>, <<"x">> }
EndTexts ==
    { <<>>, <<"3", "0">>, <<"0", "1", ":", "3", "0">>,
      <<"1", ":", "2", ":", "3", ":", "4">> }

\* Texts the operator types into the crop field.
CropTexts ==
    { <<>>,
      <<"1", "0", ",", "2", "0", ",", "3", "0", "0", ",", "4", "0", "0">>,
      <<"1", "0", ",", "2", "0", ",", "3", "0", "0">> }

\* Texts the operator types into the output PDF field.
OutputTexts == { <<>>, <<"o", ".", "pdf">> }

\* Texts the operator types into the sampling-seconds field.
SampleTexts == { <<"0", ".", "5">>, <<>>, <<"x">> }

\* Paths the download engine reports for the fetched file: a video titled
\* "v.clip" in a download directory the operator named like the trimmer's
\* fallback directory.
DownloadedPaths ==
    { Path(<<"/", "tmp", "/", "video2pdf_segments", "/",
             "v", ".", "clip [id]", ".", "mp4">>) }

\* Rectangles cv2.selectROI returns: cancelled, zero area, selected.
Rois == { <<0, 0, 0, 0>>, <<5, 5, 0, 7>>, <<1, 2, 3, 4>> }

\* Strings the extractor writes to the redirected streams.
WriteTexts == { <<>>, <<"p", "a", "g", "e">> }

\* ------------------------------------------------------------------ state

VARIABLES
    auto_crop_var,      \* the two linked checkbutton variables
    manual_select_var,
    run_btn,            \* state of the run button: "normal" or "disabled"
    dialog,             \* modal box the main thread is showing from _on_run
    ui,                 \* main thread: "idle" in the event loop, or "draining"
    log,                \* chunks in the log Text widget
    log_queue,          \* self._log_queue
    worker,             \* self._worker: 0 for None, else a thread
    threads,            \* the threads _on_run created, by number
    emitted,            \* history: the chunks put on the queue, in order, from
                        \* the first one the log widget has not lost to a clear
    fn_call             \* a call of one function taken by itself (FnSpec): the
                        \* function, its argument and, once it has returned,
                        \* its result; None while the application runs

gui ==
    <<auto_crop_var, manual_select_var, run_btn, dialog, ui, log, log_queue, worker,
      threads, emitted>>

vars == <<gui, fn_call>>

config == <<auto_crop_var, manual_select_var>>

Tids == 1..MaxRuns

\* A thread that has not been started or has finished.  input_path .. xargs are
\* the locals of work() and of the trimmer (ffmpeg: "" before the lookup, then
\* "found" or "missing"; trim_req: the condition of line 355 as evaluated; res:
\* what the last ffmpeg invocation left; probed: what
\* the probe met and the resolution it arrived at; crop_spec: the crop text
\* read), reset once the code reads them no more; the rest is
\* history of the run: the exception caught and the error boxes opened, and,
\* until the try statement is left, the progress callbacks and extractor writes
\* made and the external calls in order.  Ended(th) is the thread at its finally clause.
DeadThread ==
    [pc |-> "dead", input_path |-> <<>>, input_p |-> None, start_s |-> None,
     end_s |-> None, trim_req |-> FALSE, clip_p |-> None, ffmpeg |-> "", res |-> None,
     probed |-> None, manual_req |-> FALSE, manual_crop |-> None, crop_spec |-> <<>>,
     xargs |-> None, exc |-> "", progress |-> 0, writes |-> 0,
     trace |-> <<>>, prompts |-> 0]

Ended(th) ==
    [DeadThread EXCEPT !.pc = "finally", !.exc = th.exc, !.prompts = th.prompts]

\* threading.Thread.is_alive()
is_alive(t) == threads[t].pc # "dead"

\* App.__init__ and App._build_ui
AppInit ==
    /\ auto_crop_var = TRUE
    /\ manual_select_var = FALSE
    /\ run_btn = "normal"
    /\ dialog = "none"
    /\ ui = "idle"
    /\ log = <<>>
    /\ log_queue = <<>>
    /\ worker = 0
    /\ threads = [t \in Tids |-> DeadThread]
    /\ emitted = <<>>

Init == AppInit /\ fn_call = None

\* ------------------------------------------------------------------ main thread

\* The event loop dispatches one widget callback at a time, and none while a
\* modal box of _on_run is open.
Dispatch == ui = "idle" /\ dialog = "none"

\* Lines 265-266: the manual-select variable once auto-crop has been set to auto.
ManualAfterAuto(auto, manual) == IF auto THEN FALSE ELSE manual

\* Variant: enabling manual select leaves auto-crop as it is.
AutoKeptAfterManual(manual, auto) == auto

\* Lines 273-274: the auto-crop variable once manual-select has been set to manual.
AutoAfterManual(manual, auto) == IF manual THEN FALSE ELSE auto

\* A click on the auto-crop checkbutton: the widget flips its variable, then
\* calls App._on_toggle_auto_crop.
on_toggle_auto_crop ==
    /\ Dispatch
    /\ auto_crop_var' = ~auto_crop_var
    /\ manual_select_var' = ManualAfterAuto(auto_crop_var', manual_select_var)
    /\ UNCHANGED <<run_btn, dialog, ui, log, log_queue, worker, threads, emitted, fn_call>>

\* A click on the manual-select checkbutton: the widget flips its variable, then
\* calls App._on_toggle_manual_select.
on_toggle_manual_select ==
    /\ Dispatch
    /\ manual_select_var' = ~manual_select_var
    /\ auto_crop_var' = AutoAfterManual(manual_select_var', auto_crop_var)
    /\ UNCHANGED <<run_btn, dialog, ui, log, log_queue, worker, threads, emitted, fn_call>>

\* Variant: the start handler never sees a live worker.
BusyNever == FALSE

\* The guard of _on_run, line 292.
Busy == worker # 0 /\ is_alive(worker)

\* A click on the run button, App._on_run, with input_var holding the text the
\* operator typed: rejected with the busy box while the worker is alive, with
\* the missing-input box when the input is blank; else the log is cleared, the
\* button disabled and a new worker started on work().
on_run(input_var) ==
    /\ Dispatch
    /\ run_btn = "normal"
    /\ IF Busy
       THEN /\ dialog' = "busy"
            /\ UNCHANGED <<run_btn, log, worker, threads, emitted>>
       ELSE IF Strip(input_var) = <<>>
       THEN /\ dialog' = "missing_input"
            /\ UNCHANGED <<run_btn, log, worker, threads, emitted>>
       ELSE /\ worker < MaxRuns
            /\ log' = <<>>
            /\ emitted' = log_queue
            /\ run_btn' = "disabled"
            /\ worker' = worker + 1
            /\ threads' = [threads EXCEPT ![worker + 1] =
                               [DeadThread EXCEPT !.pc = "begin",
                                                  !.input_path = Strip(input_var)]]
            /\ UNCHANGED dialog
    /\ UNCHANGED <<config, ui, log_queue, fn_call>>

\* The operator closes the box _on_run opened; _on_run returns.
CloseDialog ==
    /\ dialog # "none"
    /\ dialog' = "none"
    /\ UNCHANGED <<config, run_btn, ui, log, log_queue, worker, threads, emitted, fn_call>>

\* The 100 ms timer fires: App._drain_log is entered.
drain_log_begin ==
    /\ ui = "idle"
    /\ ui' = "draining"
    /\ UNCHANGED <<config, run_btn, dialog, log, log_queue, worker, threads, emitted,
                   fn_call>>

\* Variant: the newest chunk is taken first.
get_newest(q) == [chunk |-> q[Len(q)], rest |-> SubSeq(q, 1, Len(q) - 1)]

\* queue.Queue.get_nowait() on a non-empty queue q: the chunk returned and the
\* queue left.
get_nowait(q) == [chunk |-> Head(q), rest |-> Tail(q)]

\* One get_nowait() that returns a chunk, and its _append_log.
drain_log_get ==
    /\ ui = "draining"
    /\ log_queue # <<>>
    /\ log' = Append(log, get_nowait(log_queue).chunk)
    /\ log_queue' = get_nowait(log_queue).rest
    /\ UNCHANGED <<config, run_btn, dialog, ui, worker, threads, emitted, fn_call>>

\* get_nowait() raises queue.Empty: the loop ends and the timer is re-armed.
drain_log_end ==
    /\ ui = "draining"
    /\ log_queue = <<>>
    /\ ui' = "idle"
    /\ UNCHANGED <<config, run_btn, dialog, log, log_queue, worker, threads, emitted,
                   fn_call>>

\* ------------------------------------------------------------------ worker

\* A chunk on the queue is <<t, kind>>: the thread that put it and what its text
\* is: "info" (a progress, resolution or region-selection line, or extractor
\* output), "error" (the line of 449) or "done" (the line of 447).
Chunks(t, kinds) == [i \in 1..Len(kinds) |-> <<t, kinds[i]>>]

\* A step of thread t that leaves its locals as th and puts one chunk of each
\* kind in kinds on the queue (queue.Queue.put), in order.  The queue itself is
\* unbounded; the model explores it up to MaxQueue chunks.
Step(t, th, kinds) ==
    /\ Len(log_queue) + Len(kinds) <= MaxQueue
    /\ threads' = [threads EXCEPT ![t] = th]
    /\ log_queue' = log_queue \o Chunks(t, kinds)
    /\ emitted' = emitted \o Chunks(t, kinds)
    /\ UNCHANGED <<config, run_btn, dialog, ui, log, worker, fn_call>>

\* The chunks StreamToQueue.write(s) queues: an empty string is not queued.
StreamWrite(s) == IF s # <<>> THEN <<"info">> ELSE <<>>

\* Variant: the handler queues the error twice.
ErrorChunksTwice == <<"error", "error">>

\* The chunks the handler of lines 448-450 queues.
ErrorChunks == <<"error">>

\* Variant: the exception is logged and the pipeline goes on at the probe.
RaiseSwallowed(t, th, exc) ==
    Step(t, [th EXCEPT !.pc = "probe", !.exc = exc], ErrorChunks)

\* The handler of lines 448-450 entered with exception exc: the error chunk is
\* queued and the error box opened, which blocks the worker.  The handler reads
\* none of the locals of the try block; the model keeps the times of a rejected
\* range, the answer of the ffmpeg lookup, the result of a failed re-encode
\* and, for an exception raised before the probe, the external calls made.
Raise(t, th, exc) ==
    Step(t, [th EXCEPT !.pc = "prompt", !.exc = exc, !.prompts = @ + 1,
                       !.input_p = None, !.clip_p = None, !.manual_crop = None,
                       !.xargs = None, !.crop_spec = <<>>,
                       !.res = IF exc = "TrimFailed" THEN @ ELSE None,
                       !.probed = None, !.manual_req = FALSE, !.progress = 0,
                       !.trim_req = FALSE,
                       !.writes = 0,
                       !.trace = IF exc \in {"OutputPathError", "OptionError",
                                              "RegionSpecError", "ExtractorError"}
                                 THEN <<>> ELSE @,
                       !.start_s = IF exc = "InvalidRange" THEN @ ELSE None,
                       !.end_s = IF exc = "InvalidRange" THEN @ ELSE None],
         ErrorChunks)

Called(th, stage) == [th EXCEPT !.trace = Append(@, stage)]

\* Variant: every input is handed to the download engine.
work_begin_downloading(t) ==
    LET th == threads[t]
    IN  /\ th.pc = "begin"
        /\ Step(t, Called([th EXCEPT !.pc = "download"], "download"), <<>>)

\* Lines 309-341 up to the call of download_video.
work_begin(t) ==
    LET th == threads[t]
    IN  /\ th.pc = "begin"
        /\ IF is_url(th.input_path)
           THEN Step(t, Called([th EXCEPT !.pc = "download"], "download"), <<>>)
           ELSE Step(t, [th EXCEPT !.pc = "parse_start",
                                   !.input_p = Some(Path(th.input_path))], <<>>)

\* The chunks on_progress(d) queues for d["status"] = status, lines 317-331.
ProgressChunks(status) ==
    IF status \in {"downloading", "finished"} THEN <<"info">> ELSE <<>>

\* The download engine calls on_progress.
on_progress(t, status) ==
    LET th == threads[t]
    IN  /\ th.pc = "download"
        /\ th.progress < MaxProgress
        /\ Step(t, [th EXCEPT !.progress = @ + 1], ProgressChunks(status))

\* Variant: the path download_video returns is dropped and the text typed is
\* used as the path.
download_return_discarding(t, path) ==
    LET th == threads[t]
    IN  /\ th.pc = "download"
        /\ Step(t, [th EXCEPT !.pc = "parse_start",
                               !.input_p = Some(Path(th.input_path)),
                               !.progress = 0], <<>>)

\* download_video returns the local path, lines 333-339.
download_return(t, path) ==
    LET th == threads[t]
    IN  /\ th.pc = "download"
        /\ Step(t, [th EXCEPT !.pc = "parse_start", !.input_p = Some(path),
                               !.progress = 0], <<>>)

\* download_video raises.
download_raise(t) ==
    /\ threads[t].pc = "download"
    /\ Raise(t, threads[t], "DownloadError")

\* self._parse_time_to_seconds on each text of the two time fields.
TimeParses == [text \in StartTexts \cup EndTexts |-> parse_time_to_seconds(text)]

\* Lines 346-349, with start_time_var holding the text the operator typed.
parse_start(t, start_time_var) ==
    LET th == threads[t]
        r == TimeParses[start_time_var]
    IN  /\ th.pc = "parse_start"
        /\ IF r.err
           THEN Raise(t, th, "StartTimeFormat")
           ELSE Step(t, [th EXCEPT !.pc = "parse_end", !.start_s = r.val], <<>>)

\* Variant: an end bound alone asks for no trim.
TrimRequestedStartOnly(start_s, end_s) == start_s # None

\* The condition of line 355.
TrimRequested(start_s, end_s) == start_s # None \/ end_s # None

\* Variant: only an end strictly before the start is rejected.
RangeInvalidStrict(start_s, end_s) ==
    end_s # None /\ start_s # None /\ end_s[1] < start_s[1]

\* The condition of line 356.
RangeInvalid(start_s, end_s) ==
    end_s # None /\ start_s # None /\ FLe(end_s[1], start_s[1])

\* Lines 350-361: the end time is parsed, the range validated, the clip
\* directory made and the clip path computed; end_time_var holds the text the
\* operator typed, parent_exists is the answer of input_p.parent.exists() and
\* mkdir_ok whether clip_dir.mkdir returns.
parse_end(t, end_time_var, parent_exists, mkdir_ok) ==
    LET th == threads[t]
        r == TimeParses[end_time_var]
    IN  /\ th.pc = "parse_end"
        /\ IF r.err THEN Raise(t, th, "EndTimeFormat")
           ELSE IF ~TrimRequested(th.start_s, r.val)
           THEN Step(t, [th EXCEPT !.pc = "probe", !.end_s = r.val], <<>>)
           ELSE IF RangeInvalid(th.start_s, r.val)
           THEN Raise(t, [th EXCEPT !.end_s = r.val], "InvalidRange")
           ELSE IF ~mkdir_ok THEN Raise(t, th, "ClipDirError")
           ELSE Step(t, [th EXCEPT !.pc = "toolcheck", !.end_s = r.val,
                                   !.trim_req = TRUE,
                                   !.clip_p = Some(ClipPath(th.input_p[1],
                                                            parent_exists))], <<>>)

\* Variant: the lookup result is not tested.
ToolNeverMissing(ffmpeg) == FALSE

\* The test of line 102.
ToolMissing(ffmpeg) == ffmpeg = "missing"

\* Lines 101-103: found is whether shutil.which("ffmpeg") names a program.
trim_toolcheck(t, found) ==
    LET th == [threads[t] EXCEPT !.ffmpeg = IF found THEN "found" ELSE "missing"]
    IN  /\ threads[t].pc = "toolcheck"
        /\ IF ToolMissing(th.ffmpeg)
           THEN Raise(t, th, "ToolMissing")
           ELSE Step(t, [th EXCEPT !.pc = "fastcopy"], <<>>)

\* f"{x:.3f}" of a float.  (The model has no negative zero.)
Fmt3(x) ==
    IF x = NaN THEN <<"n", "a", "n">>
    ELSE IF x = PosInf THEN <<"i", "n", "f">>
    ELSE IF x = NegInf THEN <<"-", "i", "n", "f">>
    ELSE LET m == IF x < 0 THEN -x ELSE x
         IN  (IF x < 0 THEN <<"-">> ELSE <<>>) \o NatText(m \div 1000) \o <<".">>
                 \o <<DigitChar((m \div 100) % 10), DigitChar((m \div 10) % 10),
                       DigitChar(m % 10)>>

\* Variant: the end bound is passed as the duration.
DurationAsEnd(start_s, end_s) ==
    IF start_s # None /\ end_s # None /\ FGt(end_s[1], start_s[1]) THEN end_s ELSE None

\* Lines 106-108.
Duration(start_s, end_s) ==
    IF start_s # None /\ end_s # None /\ FGt(end_s[1], start_s[1])
    THEN Some(FAdd(end_s[1], FNeg(start_s[1])))
    ELSE None

\* Lines 105-113: the arguments both invocations start with.  An argument is a
\* text; a fixed word is written as one string.
TrimArgs(src, start_s, end_s) ==
    LET duration == Duration(start_s, end_s)
    IN  << <<"ffmpeg">>, <<"-y">> >>
            \o (IF start_s # None THEN << <<"-ss">>, Fmt3(start_s[1]) >> ELSE <<>>)
            \o << <<"-i">>, src >>
            \o (IF duration # None THEN << <<"-t">>, Fmt3(duration[1]) >> ELSE <<>>)

\* Line 115.
FastArgs(args, dst) == args \o << <<"-c">>, <<"copy">>, dst >>

\* Line 120.
SlowArgs(args, dst) ==
    args \o << <<"-c:v">>, <<"libx264">>, <<"-preset">>, <<"fast">>, <<"-crf">>, <<"23">>,
               <<"-c:a">>, <<"aac">>, <<"-b:a">>, <<"192k">>, dst >>

\* What one ffmpeg invocation leaves: its exit code, and whether the output file
\* exists and its size.
RunResults ==
    { r \in [returncode : {0, 1}, exists : BOOLEAN, size : {0, 7}] :
          r.exists \/ r.size = 0 }

\* Variant: the exit code alone decides.
FastCopyOkExitOnly(res) == res.returncode = 0

\* The success test of line 117.
FastCopyOk(res) == res.returncode = 0 /\ res.exists /\ res.size > 0

\* Variant: the exit code alone decides.
ReencodeFailedExitOnly(res) == res.returncode # 0

\* The failure test of line 122.
ReencodeFailed(res) == res.returncode # 0 \/ ~res.exists \/ res.size = 0

\* _trim_video_with_ffmpeg has returned, lines 363-364: the clip becomes the
\* input and the trimmer's locals are dead.
Trimmed(th) ==
    [th EXCEPT !.pc = "probe", !.input_p = th.clip_p, !.start_s = None,
               !.end_s = None, !.clip_p = None, !.ffmpeg = ""]

\* Lines 105-118: the stream-copy invocation and its test.
trim_fastcopy(t, res) ==
    LET th == threads[t]
    IN  /\ th.pc = "fastcopy"
        /\ IF FastCopyOk(res)
           THEN Step(t, Called(Trimmed([th EXCEPT !.res = Some(res)]), "ffmpeg_copy"),
                     <<>>)
           ELSE Step(t, Called([th EXCEPT !.pc = "reencode", !.res = Some(res)],
                               "ffmpeg_copy"), <<>>)

\* Lines 120-123: the re-encode invocation and its test.
trim_reencode(t, res) ==
    LET th == threads[t]
    IN  /\ th.pc = "reencode"
        /\ IF ReencodeFailed(res)
           THEN Raise(t, Called([th EXCEPT !.res = Some(res)], "ffmpeg_encode"),
                      "TrimFailed")
           ELSE Step(t, Called(Trimmed([th EXCEPT !.res = Some(res)]), "ffmpeg_encode"),
                     <<>>)

\* What cv2.VideoCapture does on the probed file: raising, not opening, or
\* opening with declared dimensions (0 when undeclared) and a first frame that
\* decodes or not.
ProbeOutcomes ==
    [kind : {"raises", "unopened"}, width : {0}, height : {0}, frame : {FALSE}]
        \cup [kind : {"opened"}, width : {0, 640}, height : {0, 480}, frame : BOOLEAN]

\* Lines 367-378: the resolution the probe arrives at, None when it has none.
ProbedResolution(o) ==
    IF o.kind # "opened" THEN None
    ELSE IF o.width # 0 /\ o.height # 0 THEN Some(<<o.width, o.height>>)
    ELSE IF o.frame THEN Some(<<640, 480>>)
    ELSE None

\* The chunks the probe queues, lines 377-380.
ProbeChunks(o) == IF ProbedResolution(o) # None THEN <<"info">> ELSE <<>>

\* Variant: an exception of the probe reaches the handler of the run.
probe_propagating(t, o) ==
    LET th == threads[t]
    IN  /\ th.pc = "probe"
        /\ IF o.kind = "raises"
           THEN Raise(t, Called(th, "probe"), "ProbeError")
           ELSE Step(t, Called([th EXCEPT !.pc = "outputs", !.res = None,
                                          !.probed = Some([kind |-> o.kind,
                                                           resolution |-> ProbedResolution(o)])],
                               "probe"),
                     ProbeChunks(o))

\* Lines 366-380: the probe meets outcome o.
probe(t, o) ==
    LET th == threads[t]
    IN  /\ th.pc = "probe"
        /\ Step(t, Called([th EXCEPT !.pc = "outputs", !.res = None,
                                     !.probed = Some([kind |-> o.kind,
                                                      resolution |-> ProbedResolution(o)])],
                          "probe"),
                ProbeChunks(o))

\* Path.with_suffix raises ValueError on a path with an empty name.
WithSuffixRaises(p) == Name(p) = <<>>

\* Lines 382-385: the output PDF defaults to the input with suffix ".pdf" when
\* the output field, holding output_var, is blank.
resolve_outputs(t, output_var) ==
    LET th == threads[t]
    IN  /\ th.pc = "outputs"
        /\ IF Strip(output_var) = <<>> /\ WithSuffixRaises(th.input_p[1])
           THEN Raise(t, th, "OutputPathError")
           ELSE Step(t, [th EXCEPT !.pc = "manual", !.probed = None], <<>>)

\* Lines 388-396: frame_ok is whether the first frame could be read.
manual_begin(t, frame_ok) ==
    LET th == threads[t]
    IN  /\ th.pc = "manual"
        /\ IF ~manual_select_var
           THEN Step(t, [th EXCEPT !.pc = "opts"], <<>>)
           ELSE IF ~frame_ok
           THEN Step(t, Called([th EXCEPT !.pc = "opts", !.manual_req = TRUE],
                               "first_frame"), <<"info">>)
           ELSE Step(t, Called([th EXCEPT !.pc = "select_roi", !.manual_req = TRUE],
                               "first_frame"), <<"info">>)

\* The test of line 400 on roi = <<x, y, w, h>>.
Selected(roi) == roi[3] > 0 /\ roi[4] > 0

\* Lines 397-404: cv2.selectROI returns roi.
select_roi(t, roi) ==
    LET th == threads[t]
    IN  /\ th.pc = "select_roi"
        /\ IF Selected(roi)
           THEN Step(t, Called([th EXCEPT !.pc = "opts", !.manual_crop = Some(roi)],
                               "select_roi"), <<"info">>)
           ELSE Step(t, Called([th EXCEPT !.pc = "opts"], "select_roi"), <<"info">>)

\* Lines 397 and 405-406: cv2.selectROI raises.
select_roi_raise(t) ==
    LET th == threads[t]
    IN  /\ th.pc = "select_roi"
        /\ Step(t, Called([th EXCEPT !.pc = "opts"], "select_roi"), <<"info">>)

\* float(self.sample_var.get() or 0.5), line 409.
SampleSeconds(text) ==
    IF text = <<>> THEN [ok |-> TRUE, val |-> 500] ELSE ParseFloat(text)

\* Variant: the explicit region spec is dropped.
CropRegionManualOnly(manual_crop, parsed) == manual_crop

\* Lines 411-413: the crop handed to the extractor.
CropRegion(manual_crop, parsed) == IF manual_crop # None THEN manual_crop ELSE parsed

\* Line 423.
AutoCrop(manual_crop, auto) == IF manual_crop # None THEN FALSE ELSE auto

\* Lines 408-425: the options are parsed; sample_var and crop_var hold the texts
\* the operator typed.  The other numeric fields keep the texts _build_ui gave
\* them, which parse.
parse_options(t, sample_var, crop_var) ==
    LET th == threads[t]
        c == parse_crop(Strip(crop_var))
    IN  /\ th.pc = "opts"
        /\ IF ~SampleSeconds(sample_var).ok THEN Raise(t, th, "OptionError")
           ELSE IF c.err THEN Raise(t, th, "RegionSpecError")
           ELSE Step(t, [th EXCEPT !.pc = "call", !.crop_spec = crop_var,
                                   !.xargs = Some(
                                       [video_path |-> th.input_p[1],
                                        crop_region |-> CropRegion(th.manual_crop, c.val),
                                        auto_crop |-> AutoCrop(th.manual_crop,
                                                               auto_crop_var)])],
                     <<>>)

\* Lines 427-446: extract_frames_to_pdf is entered with the streams redirected;
\* the locals of work() are read no more.
extractor_call(t) ==
    LET th == threads[t]
    IN  /\ th.pc = "call"
        /\ Step(t, Called([th EXCEPT !.pc = "extract", !.input_p = None,
                                     !.manual_crop = None, !.xargs = None,
                                     !.crop_spec = <<>>, !.manual_req = FALSE,
                                     !.trim_req = FALSE],
                          "extractor"), <<>>)

\* The extractor writes s to the redirected stdout or stderr.
extractor_write(t, s) ==
    LET th == threads[t]
    IN  /\ th.pc = "extract"
        /\ th.writes < MaxWrites
        /\ Step(t, [th EXCEPT !.writes = @ + 1], StreamWrite(s))

\* extract_frames_to_pdf returns; line 447.
extractor_return(t) ==
    LET th == threads[t]
    IN  /\ th.pc = "extract"
        /\ Step(t, Ended(th), <<"done">>)

\* extract_frames_to_pdf raises.
extractor_raise(t) ==
    /\ threads[t].pc = "extract"
    /\ Raise(t, threads[t], "ExtractorError")

\* The operator acknowledges the error box; messagebox.showerror returns.
acknowledge(t) ==
    LET th == threads[t]
    IN  /\ th.pc = "prompt"
        /\ Step(t, Ended(th), <<>>)

\* Variant: the button is left disabled.
FinallyStateDisabled == "disabled"

\* The state line 452 gives the run button.
FinallyState == "normal"

\* Lines 451-452: the button is enabled again.
work_finally(t) ==
    /\ threads[t].pc = "finally"
    /\ run_btn' = FinallyState
    /\ threads' = [threads EXCEPT ![t] = [DeadThread EXCEPT !.pc = "exiting"]]
    /\ UNCHANGED <<config, dialog, ui, log, log_queue, worker, emitted, fn_call>>

\* work() has returned and the thread ends.
thread_exit(t) ==
    /\ threads[t].pc = "exiting"
    /\ threads' = [threads EXCEPT ![t] = DeadThread]
    /\ UNCHANGED <<config, run_btn, dialog, ui, log, log_queue, worker, emitted, fn_call>>

\* One step of thread t.
Work(t) ==
    \/ work_begin(t)
    \/ \E status \in {"downloading", "finished", "error"} : on_progress(t, status)
    \/ \E path \in DownloadedPaths : download_return(t, path)
    \/ download_raise(t)
    \/ \E text \in StartTexts : parse_start(t, text)
    \/ \E text \in EndTexts, parent_exists \in BOOLEAN, mkdir_ok \in BOOLEAN :
           parse_end(t, text, parent_exists, mkdir_ok)
    \/ \E found \in BOOLEAN : trim_toolcheck(t, found)
    \/ \E res \in RunResults : trim_fastcopy(t, res)
    \/ \E res \in RunResults : trim_reencode(t, res)
    \/ \E o \in ProbeOutcomes : probe(t, o)
    \/ \E text \in OutputTexts : resolve_outputs(t, text)
    \/ \E frame_ok \in BOOLEAN : manual_begin(t, frame_ok)
    \/ \E roi \in Rois : select_roi(t, roi)
    \/ select_roi_raise(t)
    \/ \E sample \in SampleTexts, crop \in CropTexts : parse_options(t, sample, crop)
    \/ extractor_call(t)
    \/ \E s \in WriteTexts : extractor_write(t, s)
    \/ extractor_return(t)
    \/ extractor_raise(t)
    \/ acknowledge(t)
    \/ work_finally(t)
    \/ thread_exit(t)

Next ==
    \/ on_toggle_auto_crop
    \/ on_toggle_manual_select
    \/ \E input_var \in InputTexts : on_run(input_var)
    \/ CloseDialog
    \/ drain_log_begin
    \/ drain_log_get
    \/ drain_log_end
    \/ \E t \in Tids : Work(t)

Spec == Init /\ [][Next]_vars

\* The timer keeps firing and each started drain loop runs to its end; a thread
\* that can take a step takes one: every blocking call returns and the operator
\* acknowledges the error box.
Drain == drain_log_begin \/ drain_log_get \/ drain_log_end

FairSpec == Spec /\ WF_vars(Drain) /\ \A t \in Tids : WF_vars(Work(t))

\* ------------------------------------------------------------------ functions

\* One function called by itself: fn_call holds the function, its argument and
\* then its result; the application stays as constructed.
Pending(fn, arg) == Some([fn |-> fn, arg |-> arg, ret |-> None])

Returns(fn, ret) ==
    /\ fn_call # None
    /\ fn_call[1].fn = fn
    /\ fn_call[1].ret = None
    /\ fn_call' = Some([fn_call[1] EXCEPT !.ret = Some(ret)])
    /\ UNCHANGED gui

\* download_video(url, output_dir, quality = arg) builds its format query.
call_download_video ==
    fn_call # None /\ Returns("download_video", FormatSelector(MaxHeight(fn_call[1].arg)))

\* self._parse_time_to_seconds(arg).
call_parse_time_to_seconds ==
    fn_call # None /\ Returns("parse_time_to_seconds", parse_time_to_seconds(fn_call[1].arg))

\* The pairs of bounds lines 355-357 let through to the trimmer.
TrimRanges ==
    { r \in [start_s : {parse_time_to_seconds(text).val : text \in TrimTexts},
              end_s : {parse_time_to_seconds(text).val : text \in TrimTexts}] :
          TrimRequested(r.start_s, r.end_s) /\ ~RangeInvalid(r.start_s, r.end_s) }

\* self._trim_video_with_ffmpeg(src, dst, arg.start_s, arg.end_s) with ffmpeg
\* found: the argument lists of its two invocations.
call_trim_video_with_ffmpeg ==
    /\ fn_call # None
    /\ Returns("trim_video_with_ffmpeg",
               LET args == TrimArgs(<<"v.mp4">>, fn_call[1].arg.start_s, fn_call[1].arg.end_s)
               IN  [fast |-> FastArgs(args, <<"clip.mp4">>),
                    slow |-> SlowArgs(args, <<"clip.mp4">>)])

FnInit ==
    /\ AppInit
    /\ \/ \E quality \in QualityTexts : fn_call = Pending("download_video", quality)
       \/ \E text \in TimeTexts : fn_call = Pending("parse_time_to_seconds", text)
       \/ \E r \in TrimRanges : fn_call = Pending("trim_video_with_ffmpeg", r)

FnNext ==
    \/ call_download_video
    \/ call_parse_time_to_seconds
    \/ call_trim_video_with_ffmpeg

FnSpec == FnInit /\ [][FnNext]_vars

\* The call of fn that has returned, if fn_call is one.
Returned(fn) == fn_call # None /\ fn_call[1].fn = fn /\ fn_call[1].ret # None

\* ------------------------------------------------------------------ claims

Alive == {t \in Tids : is_alive(t)}

Has(trace, stage) == \E i \in 1..Len(trace) : trace[i] = stage

\* Chunks of the given kind thread t has put on the queue.
Count(t, kind) == Cardinality({i \in 1..Len(emitted) : emitted[i] = <<t, kind>>})

\* A step of _on_run: a box opens or a thread is created.
StartRequest == dialog = "none" /\ (dialog' # "none" \/ worker' # worker)

\* C1: at most one worker is alive at any time; a start request made while a
\* worker is alive opens the busy box and changes nothing else (no thread is
\* created, the log and the button stay as they are); and a thread only ever
\* starts in a start request made while no worker is alive, so a rejected
\* request starts no run later.
C1_SingleRun ==
    [][/\ Cardinality(Alive') <= 1
       /\ (StartRequest /\ Alive # {})
              => dialog' = "busy" /\ UNCHANGED <<worker, threads, run_btn, log, log_queue>>
       /\ \A t \in Tids : (~is_alive(t) /\ is_alive(t)')
              => StartRequest /\ Alive = {} /\ dialog' = "none"]_vars

\* A start request has been rejected with the busy box while a worker is alive.
C1_Witness == dialog = "busy" /\ Alive # {}

\* C2: whenever the parsed start and end are both present with end <= start, the
\* worker is at the error box with the invalid-range error and has invoked
\* neither ffmpeg nor the extractor, nor looked ffmpeg up.
C2_InvalidRangeAborts ==
    \A t \in Tids :
        LET th == threads[t]
        IN  (th.start_s # None /\ th.end_s # None /\ th.end_s[1] <= th.start_s[1])
                => /\ th.pc = "prompt"
                   /\ th.exc = "InvalidRange"
                   /\ th.ffmpeg = ""
                   /\ ~Has(th.trace, "ffmpeg_copy")
                   /\ ~Has(th.trace, "ffmpeg_encode")
                   /\ ~Has(th.trace, "extractor")

\* Start "90" and end "01:30": equal bounds, rejected.
C2_Witness ==
    \E t \in Tids :
        /\ threads[t].exc = "InvalidRange"
        /\ threads[t].start_s = Some(90000)
        /\ threads[t].end_s = Some(90000)

\* C3: the step that runs the stream-copy invocation goes on to the re-encode
\* invocation whenever the result is not (exit code 0, output present, output
\* size > 0), and leaves the trimmer only when it is; and the next step at the
\* re-encode invocation runs ffmpeg again.
C3_TrimFallback ==
    [][\A t \in Tids :
           LET a == threads[t]
               b == threads'[t]
           IN  /\ (a.pc = "fastcopy" /\ b # a)
                      => /\ b.trace = Append(a.trace, "ffmpeg_copy")
                         /\ b.res # None
                         /\ IF b.res[1].returncode = 0 /\ b.res[1].exists
                                   /\ b.res[1].size > 0
                            THEN b.pc = "probe"
                            ELSE b.pc = "reencode"
               /\ (a.pc = "reencode" /\ b # a)
                      => b.trace = Append(a.trace, "ffmpeg_encode")]_vars

\* The stream copy exited 0 and left a zero-byte file: the re-encode is next.
C3_Witness ==
    \E t \in Tids :
        /\ threads[t].pc = "reencode"
        /\ threads[t].res # None
        /\ threads[t].res[1].returncode = 0
        /\ threads[t].res[1].exists
        /\ threads[t].res[1].size = 0

\* C4: whenever the ffmpeg lookup found nothing, the run is at its error box with
\* the tool-missing error, one error chunk queued and one box opened, and no
\* ffmpeg invocation, probe or extractor call was made.
C4_ToolMissingFatal ==
    \A t \in Tids :
        LET th == threads[t]
        IN  th.ffmpeg = "missing"
                => /\ th.pc = "prompt"
                   /\ th.exc = "ToolMissing"
                   /\ th.prompts = 1
                   /\ Count(t, "error") = 1
                   /\ \A st \in {"ffmpeg_copy", "ffmpeg_encode", "probe", "extractor"} :
                          ~Has(th.trace, st)

C4_Witness ==
    \E t \in Tids : threads[t].ffmpeg = "missing" /\ threads[t].pc = "prompt"

\* The exceptions of the Source Resolver, time parsing, range validation and the
\* Trimmer, and the external calls a run may have made when one is raised.
EarlyFatal ==
    {"DownloadError", "StartTimeFormat", "EndTimeFormat", "InvalidRange", "ToolMissing",
     "TrimFailed"}

CallsBefore(exc) ==
    IF exc = "TrimFailed" THEN {"download", "ffmpeg_copy", "ffmpeg_encode"}
    ELSE {"download"}

\* C5: a run in which one of the early fatal errors was raised is at its error
\* box or past it, has made no external call of a later stage (no ffmpeg after a
\* resolver, parse, range or lookup failure; never the probe, the region
\* selection or the extractor), and from the error box only goes on to its
\* finally clause and its end.
C5_FatalAborts ==
    [][\A t \in Tids :
           LET a == threads[t]
               b == threads'[t]
           IN  /\ b.exc \in EarlyFatal
                      => /\ b.pc \in {"prompt", "finally"}
                         /\ b.pc = "prompt"
                                => \A i \in 1..Len(b.trace) : b.trace[i] \in CallsBefore(b.exc)
               /\ (a.exc \in EarlyFatal /\ b # a)
                      => \/ a.pc = "prompt" /\ b.pc = "finally" /\ b.exc = a.exc
                         \/ a.pc = "finally" /\ b.pc = "exiting"]_vars

\* The trimmer failed in both invocations and the run is at its error box.
C5_Witness ==
    \E t \in Tids : threads[t].pc = "prompt" /\ threads[t].exc = "TrimFailed"

\* C6: a run that reaches its finally clause after an exception has put exactly
\* one error chunk on the queue and opened exactly one error box; one that
\* reaches it without has put none and opened none, and has put the completion
\* chunk; before the handler a run has surfaced no fatal message.
C6_OneFatalMessage ==
    \A t \in Tids :
        LET th == threads[t]
        IN  /\ th.pc \in {"prompt", "finally"} /\ th.exc # ""
                => th.prompts = 1 /\ Count(t, "error") = 1 /\ Count(t, "done") = 0
            /\ th.pc = "finally" /\ th.exc = ""
                => th.prompts = 0 /\ Count(t, "error") = 0 /\ Count(t, "done") = 1
            /\ th.pc \notin {"dead", "exiting", "finally", "prompt"}
                => th.exc = "" /\ th.prompts = 0 /\ Count(t, "error") = 0

\* A failed run at its finally clause, its error box acknowledged.
C6_Witness ==
    \E t \in Tids : threads[t].pc = "finally" /\ threads[t].exc # ""

\* C7: under FairSpec, whenever the run button is disabled or a worker is alive,
\* a state follows in which the worker has ended (in success or in failure) and
\* the run button is enabled.
C7_RunControlReenabled ==
    (run_btn = "disabled" \/ Alive # {}) ~> (run_btn = "normal" /\ Alive = {})

\* A run has ended and the button is enabled again.
C7_Witness ==
    \E t \in Tids : threads[t].pc = "exiting" /\ run_btn = "normal"

\* C8: after every step the chunks in the log widget followed by the chunks
\* waiting on the queue are the chunks put, in the order put: what is rendered is
\* a prefix of what was emitted, nothing reordered, duplicated or dropped; a
\* drain step moves the oldest waiting chunk to the end of the log; and a drain
\* loop returns only at an empty queue, which it leaves without waiting.
C8_Fifo ==
    [][/\ log' \o log_queue' = emitted'
       /\ Len(log') <= Len(emitted')
       /\ SubSeq(emitted', 1, Len(log')) = log'
       /\ (ui = "draining" /\ log' # log)
              => log' = Append(log, Head(log_queue)) /\ log_queue' = Tail(log_queue)
       /\ (ui = "draining" /\ ui' = "idle")
              => log_queue = <<>> /\ UNCHANGED <<log, log_queue>>]_vars

\* Chunks have been rendered while later ones wait on the queue.
C8_Witness == Len(log) >= 2 /\ Len(log_queue) >= 2 /\ log_queue[1] # log_queue[2]

\* C9: the manual-select and auto-crop variables are never both set.
C9_ModesExclusive == ~(manual_select_var /\ auto_crop_var)

\* Manual selection has been switched on, which switched auto-crop off.
C9_Witness == manual_select_var /\ ~auto_crop_var

\* C10 as stated: a run is never aborted by a rejected region spec, and after a
\* manual selection that was requested and produced no rectangle the extractor
\* is called with no crop.
C10_Original ==
    \A t \in Tids :
        LET th == threads[t]
        IN  /\ th.exc # "RegionSpecError"
            /\ (th.pc = "call" /\ th.manual_req /\ th.manual_crop = None)
                   => th.xargs[1].crop_region = None

\* C10 amended: the manual selection steps never enter the error handler,
\* whatever the first frame read and the selection do; the option parsing that
\* follows either calls the extractor or aborts with an option or region-spec
\* error; and when the manual selection produced no rectangle the extractor is
\* called with the crop of the explicit region spec (absent when the spec is
\* empty).
C10_ManualFailureContinues ==
    [][\A t \in Tids :
           LET a == threads[t]
               b == threads'[t]
           IN  /\ (a.pc \in {"manual", "select_roi"} /\ b # a)
                      => b.pc \in {"select_roi", "opts"} /\ b.exc = ""
               /\ (a.pc = "opts" /\ b # a)
                      => \/ b.pc = "prompt" /\ b.exc \in {"OptionError", "RegionSpecError"}
                         \/ /\ b.pc = "call"
                            /\ a.manual_crop = None
                                   => b.xargs[1].crop_region
                                          = parse_crop(Strip(b.crop_spec)).val
               /\ (a.pc = "call" /\ b # a)
                      => b.pc = "extract" /\ b.trace = Append(a.trace, "extractor")]_vars

\* A manual selection was requested and produced nothing, and the extractor is
\* about to be called with the crop of the explicit region spec.
C10_Witness ==
    \E t \in Tids :
        /\ threads[t].pc = "call"
        /\ threads[t].manual_req
        /\ threads[t].manual_crop = None
        /\ threads[t].xargs[1].crop_region = Some(<<10, 20, 300, 400>>)

\* C11: whatever the probe meets (a file that does not open, no declared
\* dimensions and no decodable frame, an exception), the probe step never enters
\* the error handler: the run goes on to the output paths with the same input,
\* no error surfaced, and nothing queued when the probe arrived at no
\* resolution; and from there it goes on to region selection, unless the
\* default output path cannot be derived from an input without a name.
C11_ProbeNeverFails ==
    [][\A t \in Tids :
           LET a == threads[t]
               b == threads'[t]
           IN  /\ (a.pc = "probe" /\ b # a)
                      => /\ b.pc = "outputs"
                         /\ b.exc = "" /\ b.prompts = 0
                         /\ b.input_p = a.input_p
                         /\ b.trace = Append(a.trace, "probe")
                         /\ b.probed # None
                         /\ b.probed[1].resolution = None => log_queue' = log_queue
               /\ (a.pc = "outputs" /\ b # a)
                      => \/ b.pc = "manual" /\ b.exc = ""
                         \/ /\ b.pc = "prompt" /\ b.exc = "OutputPathError"
                            /\ Name(a.input_p[1]) = <<>>]_vars

\* The probe raised and the run is past it, with no resolution and no error.
C11_Witness ==
    \E t \in Tids :
        /\ threads[t].pc = "outputs"
        /\ threads[t].probed # None
        /\ threads[t].probed[1].kind = "raises"
        /\ threads[t].probed[1].resolution = None
        /\ threads[t].exc = ""

\* C12 as stated: the step in which the probe arrives at no resolution, and the
\* step in which a requested region selection ends without a rectangle (first
\* frame unreadable, selection cancelled, degenerate or raising), each put one
\* chunk on the queue as the run moves on.
C12_Original ==
    [][\A t \in Tids :
           LET a == threads[t]
               b == threads'[t]
               Logged == log_queue' = Append(log_queue, <<t, "info">>)
           IN  /\ (a.pc = "probe" /\ b.pc = "outputs" /\ b.probed[1].resolution = None)
                      => Logged
               /\ (a.pc = "manual" /\ b.pc = "opts" /\ b.manual_req) => Logged
               /\ (a.pc = "select_roi" /\ b.pc = "opts" /\ b.manual_crop = None)
                      => Logged]_vars

\* C13: when the extractor is about to be called in a run whose input is no
\* URL, whose time fields both parsed to absent (the condition of line 355 was
\* false), with no manual selection requested and an empty crop field, the run
\* has called neither the download engine nor ffmpeg nor looked ffmpeg up, and
\* the extractor's video path is the path typed and its crop is absent.
C13_ScenarioA ==
    \A t \in Tids :
        LET th == threads[t]
        IN  (/\ th.pc = "call"
             /\ ~is_url(th.input_path)
             /\ ~th.trim_req
             /\ ~th.manual_req
             /\ Strip(th.crop_spec) = <<>>)
                => /\ \A st \in {"download", "ffmpeg_copy", "ffmpeg_encode"} :
                          ~Has(th.trace, st)
                   /\ th.ffmpeg = ""
                   /\ th.xargs[1].video_path = Path(th.input_path)
                   /\ th.xargs[1].crop_region = None

\* Scenario A at the extractor call, with input "d/v.mp4".
C13_Witness ==
    \E t \in Tids :
        /\ threads[t].pc = "call"
        /\ ~threads[t].trim_req
        /\ ~threads[t].manual_req
        /\ threads[t].crop_spec = <<>>
        /\ threads[t].trace = <<"probe">>
        /\ threads[t].xargs[1].video_path = Path(<<"d", "/", "v", ".", "mp4">>)
        /\ threads[t].xargs[1].crop_region = None

\* The clip paths the orchestrator derives from path p.
ClipsOf(p) == {ClipPath(p, parent_exists) : parent_exists \in BOOLEAN}

\* C14: in a run whose input is a URL, the input path held once the download
\* has returned is never the URL text taken as a path: it is the path the
\* download engine returned or, after a trim, the clip derived from it; the
\* trimmer's source is the downloaded file, and the extractor's video path is
\* the input path held.
C14_RemoteBecomesLocal ==
    \A t \in Tids :
        LET th == threads[t]
        IN  is_url(th.input_path)
                => /\ th.input_p # None
                          => /\ Has(th.trace, "download")
                             /\ th.input_p[1] # Path(th.input_path)
                             /\ \/ th.input_p[1] \in DownloadedPaths
                                \/ /\ Has(th.trace, "ffmpeg_copy")
                                   /\ \E d \in DownloadedPaths : th.input_p[1] \in ClipsOf(d)
                   /\ th.pc \in {"toolcheck", "fastcopy", "reencode"}
                          => th.input_p # None /\ th.input_p[1] \in DownloadedPaths
                   /\ th.pc \in {"probe", "outputs", "manual", "select_roi", "opts", "call"}
                          => th.input_p # None
                   /\ th.xargs # None => th.xargs[1].video_path = th.input_p[1]

\* A URL run at the extractor call, with the downloaded file as video path.
C14_Witness ==
    \E t \in Tids :
        /\ threads[t].pc = "call"
        /\ is_url(threads[t].input_path)
        /\ threads[t].xargs[1].video_path \in DownloadedPaths

\* The height-bounded format query: both branches bounded by the decimal text d.
BoundedQuery(d) ==
    <<"bv*[height<=?">> \o d \o <<"]+ba/b[height<=?">> \o d \o <<"]">>

\* C15: for a quality text of digits followed by "p" whose digits denote H > 0,
\* the format query bounds the height of the video-only branch and of the
\* combined branch by the decimal numeral of H, and H is the number the digits
\* denote; for every other quality text the query is the unbounded "bv*+ba/b".
C15_QualityMapping ==
    Returned("download_video")
        => LET quality == fn_call[1].arg
               query == fn_call[1].ret[1]
               digits == SubSeq(quality, 1, Len(quality) - 1)
           IN  IF /\ Len(quality) >= 2
                  /\ quality[Len(quality)] = "p"
                  /\ AllDigits(digits)
                  /\ DigitsVal(digits) > 0
               THEN \E d \in UNION {[1..n -> Digits] : n \in 1..Len(digits)} :
                        /\ d[1] # "0"
                        /\ DigitsVal(d) = DigitsVal(digits)
                        /\ query = BoundedQuery(d)
               ELSE query = <<"bv*+ba/b">>

\* Quality "17p" has been mapped to the query bounded by 17.
C15_Witness ==
    /\ Returned("download_video")
    /\ fn_call[1].arg = <<"1", "7", "p">>
    /\ fn_call[1].ret[1] = BoundedQuery(<<"1", "7">>)

\* A text of blanks only.
IsBlank(text) == \A i \in 1..Len(text) : IsSpace(text[i])

\* A numeric part: an integer is an optional sign and digits, a decimal is an
\* optional sign and digits with at most one point; blanks may surround both.
NumericInt(part) ==
    LET u == Unsigned(Strip(part))
    IN  u # <<>> /\ \A i \in 1..Len(u) : u[i] \in Digits

NumericDec(part) ==
    LET u == Unsigned(Strip(part))
    IN  /\ \A i \in 1..Len(u) : u[i] \in Digits \cup {"."}
        /\ Cardinality({i \in 1..Len(u) : u[i] = "."}) <= 1
        /\ \E i \in 1..Len(u) : u[i] \in Digits

\* C16: the time parser turns a blank text into an absent bound without error;
\* a text of one, two or three colon-separated numeric parts (integers, the
\* last one possibly fractional) into SS, MM*60+SS or HH*3600+MM*60+SS; and
\* fails with the time-format error, yielding no value, on every other text
\* (more than three parts, or a part that is not numeric).
C16_Original ==
    Returned("parse_time_to_seconds") =>
        LET text == fn_call[1].arg
            r == fn_call[1].ret[1]
            parts == Split(Strip(text), ":")
            n == Len(parts)
            IntOf(i) == ParseInt(parts[i]).val
            DecOf(i) == ParseFloat(parts[i]).val
        IN  IF IsBlank(text) THEN r = [err |-> FALSE, val |-> None]
            ELSE IF /\ n <= 3
                    /\ \A i \in 1..(n - 1) : NumericInt(parts[i])
                    /\ NumericDec(parts[n])
            THEN /\ r.err = FALSE
                 /\ r.val = Some(CASE n = 1 -> DecOf(1)
                                   [] n = 2 -> IntOf(1) * 60000 + DecOf(2)
                                   [] n = 3 -> IntOf(1) * 3600000 + IntOf(2) * 60000 + DecOf(3))
            ELSE r = [err |-> TRUE, val |-> None]

\* The success criterion of an ffmpeg invocation.
Met(res) == res # None /\ res[1].returncode = 0 /\ res[1].exists /\ res[1].size > 0

\* C17: the trimmer goes from the tool lookup to the stream copy (or to the
\* tool-missing error without running ffmpeg), from the stream copy to the end
\* of the trim or to the re-encode, and from the re-encode to the end of the
\* trim or to the trim-failed error.  The stream copy is entered only from the
\* lookup and the re-encode only from a stream copy whose result missed the
\* criterion; a trim ends well exactly when the invocation just made met the
\* criterion, and in the trim-failed error exactly when both missed it; a run
\* makes at most one stream copy and one re-encode, the copy first.
C17_TrimmerStates ==
    [][\A t \in Tids :
           LET a == threads[t]
               b == threads'[t]
           IN  b # a =>
                 /\ (b.pc = "toolcheck") => a.pc = "parse_end"
                 /\ (a.pc = "toolcheck")
                        => /\ b.pc \in {"fastcopy", "prompt"}
                           /\ b.trace = a.trace
                           /\ (b.pc = "prompt") => b.exc = "ToolMissing"
                 /\ (b.pc = "fastcopy") => a.pc = "toolcheck"
                 /\ (a.pc = "fastcopy")
                        => /\ b.pc \in {"probe", "reencode"}
                           /\ b.trace = Append(a.trace, "ffmpeg_copy")
                           /\ (b.pc = "probe") <=> Met(b.res)
                 /\ (b.pc = "reencode") => a.pc = "fastcopy"
                 /\ (a.pc = "reencode")
                        => /\ ~Met(a.res)
                           /\ b.pc \in {"probe", "prompt"}
                           /\ b.trace = Append(a.trace, "ffmpeg_encode")
                           /\ (b.pc = "probe") <=> Met(b.res)
                           /\ (b.pc = "prompt") => b.exc = "TrimFailed"
                 /\ (b.exc = "TrimFailed" /\ a.exc # "TrimFailed") => a.pc = "reencode"
                 /\ Cardinality({i \in 1..Len(b.trace) : b.trace[i] = "ffmpeg_copy"}) <= 1
                 /\ Cardinality({i \in 1..Len(b.trace) : b.trace[i] = "ffmpeg_encode"}) <= 1
                 /\ \A i \in 1..Len(b.trace) :
                        b.trace[i] = "ffmpeg_encode" => i > 1 /\ b.trace[i - 1] = "ffmpeg_copy"]_vars

\* Both invocations were made and the re-encode, which exited 0, left no
\* usable file: the run is at the trim-failed error.
C17_Witness ==
    \E t \in Tids :
        /\ threads[t].pc = "prompt"
        /\ threads[t].exc = "TrimFailed"
        /\ threads[t].trace = <<"ffmpeg_copy", "ffmpeg_encode">>
        /\ threads[t].res # None
        /\ threads[t].res[1].returncode = 0
        /\ threads[t].res[1].size = 0

\* C18: in a run that asked for the manual selection the extractor is called
\* with auto-crop off, whether or not a rectangle was selected and however the
\* operator toggles the two modes while the worker runs; and a selected
\* rectangle is the crop the extractor gets, whatever the crop field holds.
C18_Original ==
    \A t \in Tids :
        LET th == threads[t]
        IN  (th.pc = "call" /\ th.manual_req)
                => /\ th.xargs[1].auto_crop = FALSE
                   /\ (th.manual_crop # None) => th.xargs[1].crop_region = th.manual_crop

\* The places of a run in the order of the pipeline, and the external calls in
\* the same order.
PcRank(pc) ==
    CASE pc = "begin" -> 0 [] pc = "download" -> 1 [] pc = "parse_start" -> 2
      [] pc = "parse_end" -> 3 [] pc = "toolcheck" -> 4 [] pc = "fastcopy" -> 5
      [] pc = "reencode" -> 6 [] pc = "probe" -> 7 [] pc = "outputs" -> 8
      [] pc = "manual" -> 9 [] pc = "select_roi" -> 10 [] pc = "opts" -> 11
      [] pc = "call" -> 12 [] pc = "extract" -> 13 [] OTHER -> 14

StageRank(stage) ==
    CASE stage = "download" -> 1 [] stage = "ffmpeg_copy" -> 2
      [] stage = "ffmpeg_encode" -> 3 [] stage = "probe" -> 4
      [] stage = "first_frame" -> 5 [] stage = "select_roi" -> 6
      [] stage = "extractor" -> 7

\* C19: a run goes through its stages in the one order source resolution,
\* range validation and trim, probe, region resolution, extractor, never back:
\* the download is made exactly for a remote input, the trimmer is entered
\* exactly when a time bound is present (and the range valid), every external
\* call is made at most once and after the calls of the earlier stages, and
\* the extractor is called once, last, after the probe.
C19_StageOrder ==
    [][\A t \in Tids :
           LET a == threads[t]
               b == threads'[t]
           IN  (b # a /\ a.pc # "dead") =>
                 /\ PcRank(b.pc) >= PcRank(a.pc)
                 /\ (PcRank(b.pc) = PcRank(a.pc)) => b.pc \in {"download", "extract"}
                                                      \/ PcRank(a.pc) = 14
                 /\ \A i, j \in 1..Len(b.trace) :
                        i < j => StageRank(b.trace[i]) < StageRank(b.trace[j])
                 /\ (a.pc = "begin") => (b.pc = "download" <=> is_url(a.input_path))
                                        /\ (Has(b.trace, "download") <=> is_url(a.input_path))
                 /\ (a.pc = "parse_start") => ~Has(a.trace, "ffmpeg_copy")
                 /\ (a.pc = "parse_end" /\ b.pc = "probe")
                        => b.start_s = None /\ b.end_s = None
                 /\ (b.pc = "toolcheck")
                        => /\ a.pc = "parse_end"
                           /\ b.start_s # None \/ b.end_s # None
                           /\ (b.start_s # None /\ b.end_s # None)
                                  => ~(b.end_s[1] <= b.start_s[1])
                 /\ (b.pc = "extract" /\ a.pc # "extract")
                        => /\ a.pc = "call"
                           /\ b.trace = Append(a.trace, "extractor")
                           /\ Has(a.trace, "probe")
                           /\ ~Has(a.trace, "extractor")
                 /\ (a.pc = "extract") => b.trace \in {a.trace, <<>>}]_vars

\* The extractor runs after every other stage was gone through: a download,
\* both ffmpeg invocations, the probe and the manual selection.
C19_Witness ==
    \E t \in Tids :
        /\ threads[t].pc = "extract"
        /\ threads[t].trace = <<"download", "ffmpeg_copy", "ffmpeg_encode", "probe",
                                "first_frame", "select_roi", "extractor">>

\* The values that follow the flag in an argument list.
ValuesOf(args, flag) == {args[i + 1] : i \in {j \in 1..(Len(args) - 1) : args[j] = flag}}

\* The two argument lists of a trim start alike, up to the codec options.
SharedPrefix(ret) ==
    \E n \in 0..Len(ret.fast) :
        /\ SubSeq(ret.fast, 1, n) = SubSeq(ret.slow, 1, n)
        /\ ret.fast[n + 1] = <<"-c">>
        /\ ret.slow[n + 1] = <<"-c:v">>

TrimmerPcs == {"toolcheck", "fastcopy", "reencode"}

\* C21: the clip path computed for a trim is never the path of the file the
\* trim reads; while the trimmer runs, the input path and the clip path stay
\* as they are; and the input path is replaced by another path only in the
\* step that ends a trim whose last invocation met the success criterion, and
\* then by the clip path.
C21_TrimNotInPlace ==
    [][\A t \in Tids :
           LET a == threads[t]
               b == threads'[t]
           IN  b # a =>
                 /\ (b.pc = "toolcheck")
                        => /\ b.input_p = a.input_p
                           /\ b.input_p # None /\ b.clip_p # None
                 /\ (b.clip_p # None) => b.clip_p # b.input_p /\ b.pc \in TrimmerPcs
                 /\ (a.pc \in TrimmerPcs /\ b.pc \in TrimmerPcs)
                        => b.input_p = a.input_p /\ b.clip_p = a.clip_p
                 /\ (a.input_p # None /\ b.input_p # None /\ b.input_p # a.input_p)
                        => /\ a.pc \in {"fastcopy", "reencode"}
                           /\ b.pc = "probe"
                           /\ Met(b.res)
                           /\ b.input_p = a.clip_p
                 /\ (a.pc \in TrimmerPcs /\ b.pc = "probe") => b.input_p = a.clip_p]_vars

\* A download in /tmp/video2pdf_segments was trimmed while its parent was
\* reported missing: the clip took the source's place from the same directory,
\* under another name.
C21_Witness ==
    \E t \in Tids :
        /\ threads[t].pc = "probe"
        /\ Has(threads[t].trace, "ffmpeg_encode")
        /\ threads[t].input_p
               = Some([root |-> TRUE,
                       parts |-> << <<"tmp">>, <<"video2pdf_segments">>,
                                    <<"v", ".", "clip [id]", ".", "clip", ".", "mp4">> >>])

\* C22: once a run has been accepted and the log cleared, every chunk in the
\* log was put on the queue by the worker of that run, however the end of the
\* previous worker, the poll ticks and the start request interleave.
C22_Original ==
    worker # 0 => \A i \in 1..Len(log) : log[i][1] = worker

====
